---- MODULE Spec2Model ----
(***************************************************************************)
(* Model of the hcse_1_parser ingestion pipeline: the shared countdown     *)
(* counter (parser.rs try_restart), the per-job stage pipeline of each     *)
(* worker (parser.rs run and its stage functions), the status channel,     *)
(* the console aggregator (logger.rs Logger::run) and the orchestrator     *)
(* (main.rs run).                                                          *)
(***************************************************************************)
EXTENDS Integers, Sequences, FiniteSets, TLC

\* ---------------------------------------------------------------- bounds
\* --filecount and --processes of the run of Spec
NFiles == 2
NProcs == 2
\* --filecount and --processes of the run of SpecMin, the smallest run
MinFiles == 1
MinProcs == 1
\* largest number of body chunks one download response delivers
MaxChunks == 1
\* largest number of PubmedArticle nodes in one extracted document
MaxArticles == 1
\* a worker sends only while at most this many messages are undelivered
MaxBacklog == 0
\* largest content length, chunk count and article count of SpecPct, the
\* specification of the percentage reports of one stage of one job
MaxUnits == 101

\* ------------------------------------------------------- program constants
\* Logger::run forces a full redraw when clear_counter exceeds this value
ClearLimit == 9
\* the saturated value of an out-of-range f32 -> u8 cast
U8Max == 255

\* ----------------------------------------------------------------- state
VARIABLES
    n_files,             \* argument of main.rs run: Args.filecount
    n_procs,             \* argument of main.rs run: Args.processes
    counter,             \* Parser.counter_arc / task_counter (AtomicI32)
    pc,                  \* position of each worker task
    index,               \* job index the worker's paths are derived from
    article_data,        \* Parser.article_data
    chan,                \* the mpsc channel of ParserMessage
    artifact,            \* the output file results_<fname>.json per index
    clear_counter,       \* Logger::run local clear_counter
    last_parser_states,  \* Logger.last_parser_states
    finished_files,      \* Logger.finished_files
    found_articles,      \* Logger.found_articles
    overall_pos,         \* position of Logger.overall_progress_bar
    overall_msg,         \* article count shown by overall_progress_bar
    lpc,                 \* position of the logger thread
    mpc,                 \* position of main.rs run
    \* history of the run, never read by the program
    pre,                 \* indices whose artifact existed before the run
    issued,              \* how many times each index was handed to a worker
    log,                 \* statuses a worker sent since its last fetch_sub
    fault,               \* failures a worker met since its last fetch_sub
    runFaults,           \* "none", "download" (only downloads failed), "other"
    dlFailed,            \* indices for which a download failed
    netJobs,             \* indices for which an HTTP request was sent
    terminals,           \* number of FinishedInputFile / Error* messages sent
    \* one stage of one job taken alone (SpecPct)
    pct_in,              \* the stage, the content length, the chunks or articles
    pct_out              \* the statuses the stage sends for pct_in

Workers == 0 .. (n_procs - 1)
Jobs == 0 .. (n_files - 1)

vars == << n_files, n_procs, counter, pc, index, article_data, chan, artifact, clear_counter,
           last_parser_states, finished_files, found_articles, overall_pos,
           overall_msg, lpc, mpc, pre, issued, log, fault, runFaults,
           dlFailed, netJobs, terminals, pct_in, pct_out >>

runVars == << n_files, n_procs, pre >>
workerVars == << counter, pc, index, article_data, artifact >>
loggerVars == << clear_counter, last_parser_states, finished_files,
                 found_articles, overall_pos, overall_msg, lpc >>
histVars == << issued, log, fault, runFaults, dlFailed, netJobs, terminals >>
pctVars == << pct_in, pct_out >>

\* ------------------------------------------------------------- messages
\* ParserMessage { id, new_state }; n is the payload of the state, 0 if none
Msg(w, tag, n) ==
    [id |-> w, tag |-> tag, n |-> n]

ErrorTags ==
    {"ErrorDownloadFailed", "ErrorChecksumWrong", "ErrorExtractionFailed",
     "ErrorParsingFailed", "ErrorWritingFailed"}

TerminalTags ==
    ErrorTags \cup {"FinishedInputFile"}

\* the log extended by the tags of ms, a run of one tag recorded once
RECURSIVE AddTags(_, _)
AddTags(l, ms) ==
    IF ms = <<>> THEN l
    ELSE IF l # <<>> /\ l[Len(l)] = Head(ms).tag
         THEN AddTags(l, Tail(ms))
         ELSE AddTags(Append(l, Head(ms).tag), Tail(ms))

RECURSIVE CountTerminal(_)
CountTerminal(ms) ==
    IF ms = <<>> THEN 0
    ELSE (IF Head(ms).tag \in TerminalTags THEN 1 ELSE 0) + CountTerminal(Tail(ms))

\* ------------------------------------------------------------- articles
\* Texts are sequences of words; a word of Keywords stands for a text that
\* contains one of the substrings "cancer", "oncology", "tumor".
Keywords ==
    {"cancer", "oncology", "tumor"}

is_string_relevant(text) ==
    \E k \in 1 .. Len(text) : text[k] \in Keywords

is_article_relevant(a) ==
    is_string_relevant(a.title) /\ is_string_relevant(a.paper_abstract)

is_valid(a) ==
    /\ a.title # <<>>
    /\ a.date # <<>>
    /\ a.authors > 0
    /\ a.id # <<>>

\* what process_one_pubmed_article can build from one PubmedArticle node
ArticleSamples ==
    { [title |-> <<"cancer">>, id |-> <<"doi">>, paper_abstract |-> <<"tumor">>,
       authors |-> 1, date |-> <<"2024-1-1">>],
      [title |-> <<"cancer">>, id |-> <<"doi">>, paper_abstract |-> <<"heart">>,
       authors |-> 1, date |-> <<"2024-1-1">>],
      [title |-> <<"cancer">>, id |-> <<>>, paper_abstract |-> <<"tumor">>,
       authors |-> 1, date |-> <<"2024-1-1">>],
      [title |-> <<"cancer">>, id |-> <<"doi">>, paper_abstract |-> <<"tumor">>,
       authors |-> 0, date |-> <<"2024-1-1">>],
      [title |-> <<"cancer">>, id |-> <<"doi">>, paper_abstract |-> <<"tumor">>,
       authors |-> 1, date |-> <<>>],
      [title |-> <<>>, id |-> <<"doi">>, paper_abstract |-> <<"tumor">>,
       authors |-> 1, date |-> <<"2024-1-1">>] }

Documents ==
    UNION { [1 .. n -> ArticleSamples] : n \in 0 .. MaxArticles }

\* article_data.retain(|a| a.is_article_relevant())
RECURSIVE filter_articles(_)
filter_articles(as) ==
    IF as = <<>> THEN <<>>
    ELSE (IF is_article_relevant(Head(as)) THEN <<Head(as)>> ELSE <<>>)
         \o filter_articles(Tail(as))

\* ---------------------------------------------------------- percentages
\* f32 -> u8 `as` cast of a non-negative value: saturating
AsU8(x) ==
    IF x > U8Max THEN U8Max ELSE x

\* floor(100 * processed / total) as the u8 the code would report; a zero
\* total with processed > 0 divides to +inf, which casts to 255
FloorPct(processed, total) ==
    IF total = 0 THEN U8Max ELSE AsU8((100 * processed) \div total)

\* new_percentage.floor() > last_reported_percentage (+inf exceeds all)
PctExceeds(processed, total, last) ==
    IF total = 0 THEN processed > 0 ELSE (100 * processed) \div total > last

\* the chunk loop of download: chunks of one unit each, k of n received
RECURSIVE DownloadReports(_, _, _, _, _)
DownloadReports(w, total, k, n, last) ==
    IF k > n THEN <<>>
    ELSE IF PctExceeds(k, total, last)
         THEN <<Msg(w, "Downloading", FloorPct(k, total))>>
              \o DownloadReports(w, total, k + 1, n, FloorPct(k, total))
         ELSE DownloadReports(w, total, k + 1, n, last)

\* the article loop of process: k of n articles handled
RECURSIVE ProcessReports(_, _, _, _)
ProcessReports(w, k, n, last) ==
    IF k > n THEN <<>>
    ELSE IF AsU8((100 * k) \div n) > last
         THEN <<Msg(w, "Processing", AsU8((100 * k) \div n))>>
              \o ProcessReports(w, k + 1, n, AsU8((100 * k) \div n))
         ELSE ProcessReports(w, k + 1, n, last)

\* download(): Downloading(0), the reports of the chunk loop over n chunks
\* and, when the stream ends without error, the closing Downloading(100)
DownloadStatuses(w, total, n, complete) ==
    <<Msg(w, "Downloading", 0)>>
    \o DownloadReports(w, total, 1, n, 0)
    \o (IF complete THEN <<Msg(w, "Downloading", 100)>> ELSE <<>>)

\* process(): Processing(0) and the reports of the loop over n articles
ProcessStatuses(w, n) ==
    <<Msg(w, "Processing", 0)>> \o ProcessReports(w, 1, n, 0)

\* process pushing every article it builds, without the is_valid test
AllArticles(doc) ==
    doc

\* the articles of doc that pass is_valid, in document order
RECURSIVE ValidArticles(_)
ValidArticles(doc) ==
    IF doc = <<>> THEN <<>>
    ELSE (IF is_valid(Head(doc)) THEN <<Head(doc)>> ELSE <<>>)
         \o ValidArticles(Tail(doc))

\* ------------------------------------------------------------------ init
\* the output file of an index: absent, old (left by an earlier run),
\* present (written completely in this run) or partial (created, not filled)
Absent ==
    [st |-> "absent", data |-> <<>>]

Old ==
    [st |-> "old", data |-> <<>>]

Present(data) ==
    [st |-> "present", data |-> data]

Partial ==
    [st |-> "partial", data |-> <<>>]

Exists(i) ==
    artifact[i].st # "absent"

\* main.rs run(n_procs, n_files) up to the spawning of the workers
InitSystem(files, procs) ==
    /\ n_files = files
    /\ n_procs = procs
    /\ counter = files
    /\ pc = [w \in Workers |-> "sub"]
    /\ index = [w \in Workers |-> 0]
    /\ article_data = [w \in Workers |-> <<>>]
    /\ chan = <<>>
    /\ pre \in SUBSET Jobs
    /\ artifact = [i \in Jobs |-> IF i \in pre THEN Old ELSE Absent]
    /\ clear_counter = 0
    /\ last_parser_states = [w \in Workers |-> Msg(w, "Waiting", 0)]
    /\ finished_files = 0
    /\ found_articles = 0
    /\ overall_pos = 0
    /\ overall_msg = 0
    /\ lpc = "top"
    /\ mpc = "join"
    /\ issued = [i \in Jobs |-> 0]
    /\ log = [w \in Workers |-> <<>>]
    /\ fault = [w \in Workers |-> {}]
    /\ runFaults = "none"
    /\ dlFailed = {}
    /\ netJobs = {}
    /\ terminals = 0

\* no stage is taken alone in a run of the whole program
PctNone ==
    [stage |-> "none", total |-> 0, n |-> 0, complete |-> FALSE]

InitRun(files, procs) ==
    /\ InitSystem(files, procs)
    /\ pct_in = PctNone
    /\ pct_out = <<>>

Init ==
    InitRun(NFiles, NProcs)

InitMin ==
    InitRun(MinFiles, MinProcs)

\* --------------------------------------------------------------- workers
\* the channel never blocks a sender; MaxBacklog bounds the explored lag
CanSend ==
    Len(chan) <= MaxBacklog

\* report_state and the direct sender.send calls, with their history
Send(w, ms) ==
    /\ chan' = chan \o ms
    /\ log' = [log EXCEPT ![w] = AddTags(@, ms)]
    /\ terminals' = terminals + CountTerminal(ms)

\* history of a stage of worker w: the failure if any, the network use
Stage(w, name, failure, net) ==
    /\ fault' = [fault EXCEPT ![w] = @ \cup failure]
    /\ runFaults' = IF failure = {} THEN runFaults
                    ELSE IF failure = {"download"} /\ runFaults # "other"
                         THEN "download"
                         ELSE "other"
    /\ dlFailed' = IF "download" \in failure THEN dlFailed \cup {index[w]}
                   ELSE dlFailed
    /\ netJobs' = IF net THEN netJobs \cup {index[w]} ELSE netJobs

\* try_restart: counter_arc.fetch_sub(1, SeqCst)
FetchSub(w) ==
    /\ pc[w] = "sub"
    /\ counter' = counter - 1
    /\ pc' = [pc EXCEPT ![w] = "load"]
    /\ log' = [log EXCEPT ![w] = <<>>]
    /\ fault' = [fault EXCEPT ![w] = {}]
    /\ UNCHANGED << index, article_data, chan, artifact, loggerVars, mpc, runVars, pctVars,
                    issued, runFaults, dlFailed, netJobs, terminals >>

\* try_restart going round its loop after Done, the return missing
LoadNoReturn(w) ==
    /\ pc[w] = "load"
    /\ CanSend
    /\ IF counter < 0
       THEN /\ Send(w, <<Msg(w, "Done", 0)>>)
            /\ pc' = [pc EXCEPT ![w] = "sub"]
            /\ UNCHANGED << index, article_data, issued, fault >>
       ELSE /\ index' = [index EXCEPT ![w] = counter]
            /\ article_data' = [article_data EXCEPT ![w] = <<>>]
            /\ issued' = [issued EXCEPT ![counter] = @ + 1]
            /\ Send(w, <<Msg(w, "Restarting", 0)>>)
            /\ UNCHANGED fault
            /\ pc' = [pc EXCEPT ![w] = "run"]
    /\ UNCHANGED << counter, artifact, loggerVars, mpc, runVars, pctVars, runFaults,
                    dlFailed, netJobs >>

\* try_restart: counter_arc.load(SeqCst), then Done or reinit_for_index
Load(w) ==
    /\ pc[w] = "load"
    /\ CanSend
    /\ IF counter < 0
       THEN /\ Send(w, <<Msg(w, "Done", 0)>>)
            /\ pc' = [pc EXCEPT ![w] = "done"]
            /\ UNCHANGED << index, article_data, issued, fault >>
       ELSE /\ index' = [index EXCEPT ![w] = counter]
            /\ article_data' = [article_data EXCEPT ![w] = <<>>]
            /\ issued' = [issued EXCEPT ![counter] = @ + 1]
            /\ Send(w, <<Msg(w, "Restarting", 0)>>)
            /\ UNCHANGED fault
            /\ pc' = [pc EXCEPT ![w] = "run"]
    /\ UNCHANGED << counter, artifact, loggerVars, mpc, runVars, pctVars, runFaults,
                    dlFailed, netJobs >>

\* RunCheck without the early return: the job runs although its file exists
RunCheckNoSkip(w) ==
    /\ pc[w] = "run"
    /\ pc' = [pc EXCEPT ![w] = "download"]
    /\ UNCHANGED << counter, index, article_data, chan, artifact, loggerVars,
                    mpc, runVars, pctVars, histVars >>

\* run: check_if_file_is_present and the early return
RunCheck(w) ==
    /\ pc[w] = "run"
    /\ pc' = [pc EXCEPT ![w] = IF Exists(index[w]) THEN "sub" ELSE "download"]
    /\ UNCHANGED << counter, index, article_data, chan, artifact, loggerVars,
                    mpc, runVars, pctVars, histVars >>

\* run going on to check_md5 after ErrorDownloadFailed, the return missing
DownloadNoReturn(w) ==
    /\ pc[w] = "download"
    /\ CanSend
    /\ \E res \in {"send_err", "create_err", "chunk_err", "ok"},
          total \in {0, MaxChunks}, n \in 0 .. MaxChunks :
          /\ res \in {"send_err", "create_err"} => (n = 0 /\ total = 0)
          /\ res = "chunk_err" => (n < MaxChunks /\ total = MaxChunks)
          /\ res = "ok" => n = MaxChunks
          /\ LET started == res \in {"chunk_err", "ok"}
                 body == IF started
                         THEN DownloadStatuses(w, total, n, res = "ok")
                         ELSE <<>>
             IN  IF res = "ok"
                 THEN /\ Send(w, body)
                      /\ Stage(w, "download", {}, TRUE)
                      /\ pc' = [pc EXCEPT ![w] = "md5"]
                 ELSE /\ Send(w, Append(body, Msg(w, "ErrorDownloadFailed", 0)))
                      /\ Stage(w, "download", {"download"}, TRUE)
                      /\ pc' = [pc EXCEPT ![w] = "md5"]
    /\ UNCHANGED << counter, index, article_data, artifact, loggerVars, mpc,
                    runVars, pctVars, issued >>

\* run: download() and the ErrorDownloadFailed branch.  total is
\* content_length().unwrap_or(0) and n the number of chunks received, of one
\* unit each: the request or File::create fails (send_err, create_err), the
\* stream fails after n chunks (chunk_err), or all MaxChunks chunks arrive.
Download(w) ==
    /\ pc[w] = "download"
    /\ CanSend
    /\ \E res \in {"send_err", "create_err", "chunk_err", "ok"},
          total \in {0, MaxChunks}, n \in 0 .. MaxChunks :
          /\ res \in {"send_err", "create_err"} => (n = 0 /\ total = 0)
          /\ res = "chunk_err" => (n < MaxChunks /\ total = MaxChunks)
          /\ res = "ok" => n = MaxChunks
          /\ LET started == res \in {"chunk_err", "ok"}
                 body == IF started
                         THEN DownloadStatuses(w, total, n, res = "ok")
                         ELSE <<>>
             IN  IF res = "ok"
                 THEN /\ Send(w, body)
                      /\ Stage(w, "download", {}, TRUE)
                      /\ pc' = [pc EXCEPT ![w] = "md5"]
                 ELSE /\ Send(w, Append(body, Msg(w, "ErrorDownloadFailed", 0)))
                      /\ Stage(w, "download", {"download"}, TRUE)
                      /\ pc' = [pc EXCEPT ![w] = "sub"]
    /\ UNCHANGED << counter, index, article_data, artifact, loggerVars, mpc,
                    runVars, pctVars, issued >>

\* run: check_md5() and the ErrorChecksumWrong branch, taken on Err only;
\* Ok(false), the digests differing, is not an Err
CheckMd5(w) ==
    /\ pc[w] = "md5"
    /\ CanSend
    /\ \E res \in {"io_err", "mismatch", "match"} :
          IF res = "io_err"
          THEN /\ Send(w, <<Msg(w, "CheckMd5", 0), Msg(w, "ErrorChecksumWrong", 0)>>)
               /\ Stage(w, "md5", {"md5io"}, TRUE)
               /\ pc' = [pc EXCEPT ![w] = "sub"]
          ELSE /\ Send(w, <<Msg(w, "CheckMd5", 0)>>)
               /\ Stage(w, "md5", IF res = "mismatch" THEN {"mismatch"} ELSE {}, TRUE)
               /\ pc' = [pc EXCEPT ![w] = "extract"]
    /\ UNCHANGED << counter, index, article_data, artifact, loggerVars, mpc,
                    runVars, pctVars, issued >>

\* run: extract() and the ErrorExtractionFailed branch; the result of
\* gz.read_to_string is discarded (let _ =)
Extract(w) ==
    /\ pc[w] = "extract"
    /\ CanSend
    /\ \E res \in {"open_err", "decompress_err", "write_err", "ok"} :
          LET e0 == <<Msg(w, "Extracting", 0)>>
              e90 == e0 \o <<Msg(w, "Extracting", 10), Msg(w, "Extracting", 90)>>
              e100 == Append(e90, Msg(w, "Extracting", 100))
              err == Msg(w, "ErrorExtractionFailed", 0)
          IN  CASE res = "open_err" ->
                     /\ Send(w, Append(e0, err))
                     /\ Stage(w, "extract", {"extractio"}, FALSE)
                     /\ pc' = [pc EXCEPT ![w] = "sub"]
                [] res = "write_err" ->
                     /\ Send(w, Append(e90, err))
                     /\ Stage(w, "extract", {"extractio"}, FALSE)
                     /\ pc' = [pc EXCEPT ![w] = "sub"]
                [] res = "decompress_err" ->
                     /\ Send(w, e100)
                     /\ Stage(w, "extract", {"decompress"}, FALSE)
                     /\ pc' = [pc EXCEPT ![w] = "process"]
                [] res = "ok" ->
                     /\ Send(w, e100)
                     /\ Stage(w, "extract", {}, FALSE)
                     /\ pc' = [pc EXCEPT ![w] = "process"]
    /\ UNCHANGED << counter, index, article_data, artifact, loggerVars, mpc,
                    runVars, pctVars, issued >>

\* run: process(); read_to_string and parse_with_options are unwrapped, so
\* their failure panics the task; process never returns Err
Process(w) ==
    /\ pc[w] = "process"
    /\ CanSend
    /\ \/ \E res \in {"read", "parse"} :
             /\ Send(w, <<Msg(w, "Processing", 0)>>)
             /\ Stage(w, "process", {"parse"}, FALSE)
             /\ pc' = [pc EXCEPT ![w] = "panicked"]
             /\ UNCHANGED article_data
       \/ \E doc \in Documents :
             /\ Send(w, ProcessStatuses(w, Len(doc)))
             /\ Stage(w, "process", {}, FALSE)
             /\ article_data' = [article_data EXCEPT ![w] = @ \o ValidArticles(doc)]
             /\ pc' = [pc EXCEPT ![w] = "write"]
    /\ UNCHANGED << counter, index, artifact, loggerVars, mpc, runVars, pctVars, issued >>

\* write_output reporting the length of the list before filter_articles
WriteOutputUnfilteredCount(w) ==
    /\ pc[w] = "write"
    /\ CanSend
    /\ LET kept == filter_articles(article_data[w])
           i == index[w]
       IN  /\ article_data' = [article_data EXCEPT ![w] = kept]
           /\ \E res \in {"create", "fwrite", "ok"} :
                 CASE res = "create" ->
                        /\ Send(w, <<Msg(w, "WritingFile", 0)>>)
                        /\ Stage(w, "write", {"persist"}, FALSE)
                        /\ UNCHANGED artifact
                        /\ pc' = [pc EXCEPT ![w] = "panicked"]
                   [] res = "fwrite" ->
                        /\ Send(w, <<Msg(w, "WritingFile", 0)>>)
                        /\ Stage(w, "write", {"persist"}, FALSE)
                        /\ artifact' = [artifact EXCEPT ![i] = Partial]
                        /\ pc' = [pc EXCEPT ![w] = "panicked"]
                   [] res = "ok" ->
                        /\ Send(w, <<Msg(w, "WritingFile", 0),
                                     Msg(w, "FinishedInputFile", Len(article_data[w]))>>)
                        /\ Stage(w, "write", {}, FALSE)
                        /\ artifact' = [artifact EXCEPT ![i] = Present(kept)]
                        /\ pc' = [pc EXCEPT ![w] = "sub"]
    /\ UNCHANGED << counter, index, loggerVars, mpc, runVars, pctVars, issued >>

\* run: filter_articles() and write_output(); File::create and write_all are
\* unwrapped, so their failure panics the task; write_output returns true
WriteOutput(w) ==
    /\ pc[w] = "write"
    /\ CanSend
    /\ LET kept == filter_articles(article_data[w])
           i == index[w]
       IN  /\ article_data' = [article_data EXCEPT ![w] = kept]
           /\ \E res \in {"create", "fwrite", "ok"} :
                 CASE res = "create" ->
                        /\ Send(w, <<Msg(w, "WritingFile", 0)>>)
                        /\ Stage(w, "write", {"persist"}, FALSE)
                        /\ UNCHANGED artifact
                        /\ pc' = [pc EXCEPT ![w] = "panicked"]
                   [] res = "fwrite" ->
                        /\ Send(w, <<Msg(w, "WritingFile", 0)>>)
                        /\ Stage(w, "write", {"persist"}, FALSE)
                        /\ artifact' = [artifact EXCEPT ![i] = Partial]
                        /\ pc' = [pc EXCEPT ![w] = "panicked"]
                   [] res = "ok" ->
                        /\ Send(w, <<Msg(w, "WritingFile", 0),
                                     Msg(w, "FinishedInputFile", Len(kept))>>)
                        /\ Stage(w, "write", {}, FALSE)
                        /\ artifact' = [artifact EXCEPT ![i] = Present(kept)]
                        /\ pc' = [pc EXCEPT ![w] = "sub"]
    /\ UNCHANGED << counter, index, loggerVars, mpc, runVars, pctVars, issued >>

\* ---------------------------------------------------------------- logger
\* update_view(i): only FinishedInputFile(n) changes the logger's fields,
\* through update_article_and_file_counts; the other arms draw on the bars
ViewFiles(slot) ==
    IF slot.tag = "FinishedInputFile" THEN 1 ELSE 0

ViewArticles(slot) ==
    IF slot.tag = "FinishedInputFile" THEN slot.n ELSE 0

\* for i in 0..n_progs { update_view(i) } over the slots 0 .. k
RECURSIVE SumFiles(_, _)
SumFiles(slots, k) ==
    IF k < 0 THEN 0 ELSE ViewFiles(slots[k]) + SumFiles(slots, k - 1)

RECURSIVE SumArticles(_, _)
SumArticles(slots, k) ==
    IF k < 0 THEN 0 ELSE ViewArticles(slots[k]) + SumArticles(slots, k - 1)

\* the forced redraw putting every slot back to Waiting
LoggerTickResetsSlots ==
    /\ lpc = "top"
    /\ lpc' = "recv"
    /\ IF clear_counter + 1 > ClearLimit
       THEN /\ overall_pos' = finished_files
            /\ overall_msg' = found_articles
            /\ finished_files' = finished_files
                                 + SumFiles(last_parser_states, n_procs - 1)
            /\ found_articles' = found_articles
                                 + SumArticles(last_parser_states, n_procs - 1)
            /\ clear_counter' = 0
            /\ last_parser_states' = [w \in Workers |-> Msg(w, "Waiting", 0)]
       ELSE /\ clear_counter' = clear_counter + 1
            /\ UNCHANGED << overall_pos, overall_msg, finished_files,
                            found_articles, last_parser_states >>
    /\ UNCHANGED << workerVars, chan, mpc, runVars, pctVars, histVars >>

\* Logger::run, top of the loop: clear_counter += 1 and the forced redraw
LoggerTick ==
    /\ lpc = "top"
    /\ lpc' = "recv"
    /\ IF clear_counter + 1 > ClearLimit
       THEN /\ overall_pos' = finished_files
            /\ overall_msg' = found_articles
            /\ finished_files' = finished_files
                                 + SumFiles(last_parser_states, n_procs - 1)
            /\ found_articles' = found_articles
                                 + SumArticles(last_parser_states, n_procs - 1)
            /\ clear_counter' = 0
       ELSE /\ clear_counter' = clear_counter + 1
            /\ UNCHANGED << overall_pos, overall_msg, finished_files,
                            found_articles >>
    /\ UNCHANGED << workerVars, chan, last_parser_states, mpc, runVars, pctVars, histVars >>

\* update_article_and_file_counts assigning the article count (= for +=)
LoggerRecvAssign ==
    /\ lpc = "recv"
    /\ chan # <<>>
    /\ chan' = Tail(chan)
    /\ LET m == Head(chan)
       IN  IF m.tag = "Terminate"
           THEN /\ lpc' = "returned"
                /\ UNCHANGED << last_parser_states, finished_files,
                                found_articles >>
           ELSE /\ lpc' = "top"
                /\ last_parser_states' =
                       IF m.id < n_procs
                       THEN [last_parser_states EXCEPT ![m.id] = m]
                       ELSE last_parser_states
                /\ finished_files' = finished_files
                                     + ViewFiles(last_parser_states'[m.id])
                /\ found_articles' = ViewArticles(last_parser_states'[m.id])
    /\ UNCHANGED << workerVars, clear_counter, overall_pos, overall_msg, mpc,
                    runVars, pctVars, histVars >>

\* Logger::run, receiver.recv() and the handling of the message
LoggerRecv ==
    /\ lpc = "recv"
    /\ chan # <<>>
    /\ chan' = Tail(chan)
    /\ LET m == Head(chan)
       IN  IF m.tag = "Terminate"
           THEN /\ lpc' = "returned"
                /\ UNCHANGED << last_parser_states, finished_files,
                                found_articles >>
           ELSE /\ lpc' = "top"
                /\ last_parser_states' =
                       IF m.id < n_procs
                       THEN [last_parser_states EXCEPT ![m.id] = m]
                       ELSE last_parser_states
                /\ finished_files' = finished_files
                                     + ViewFiles(last_parser_states'[m.id])
                /\ found_articles' = found_articles
                                     + ViewArticles(last_parser_states'[m.id])
    /\ UNCHANGED << workerVars, clear_counter, overall_pos, overall_msg, mpc,
                    runVars, pctVars, histVars >>

\* ---------------------------------------------------------- orchestrator
\* join_all waiting for Done alone, a panicked task never counting as ended
EndedByDone(w) ==
    pc[w] = "done"

Ended(w) ==
    pc[w] \in {"done", "panicked"}

\* main.rs run sending Terminate without awaiting join_all(tasks)
SendTerminateNoJoin ==
    /\ mpc = "join"
    /\ chan' = Append(chan, Msg(0, "Terminate", 0))
    /\ mpc' = "joinLogger"
    /\ UNCHANGED << workerVars, loggerVars, runVars, pctVars, histVars >>

\* main.rs run: join_all(tasks) returns, then Terminate is sent with id 0
SendTerminate ==
    /\ mpc = "join"
    /\ \A w \in Workers : Ended(w)
    /\ chan' = Append(chan, Msg(0, "Terminate", 0))
    /\ mpc' = "joinLogger"
    /\ UNCHANGED << workerVars, loggerVars, runVars, pctVars, histVars >>

\* main.rs run: logger_thread.join() returns
JoinLogger ==
    /\ mpc = "joinLogger"
    /\ lpc = "returned"
    /\ mpc' = "exit"
    /\ UNCHANGED << workerVars, chan, loggerVars, runVars, pctVars, histVars >>

Next ==
    \/ \E w \in Workers :
          \/ FetchSub(w)
          \/ Load(w)
          \/ RunCheck(w)
          \/ Download(w)
          \/ CheckMd5(w)
          \/ Extract(w)
          \/ Process(w)
          \/ WriteOutput(w)
    \/ LoggerTick
    \/ LoggerRecv
    \/ SendTerminate
    \/ JoinLogger

Spec ==
    Init /\ [][Next]_vars

SpecMin ==
    InitMin /\ [][Next]_vars

\* the steps of one worker task, of the logger thread and of main.rs run
WorkerStep(w) ==
    \/ FetchSub(w)
    \/ Load(w)
    \/ RunCheck(w)
    \/ Download(w)
    \/ CheckMd5(w)
    \/ Extract(w)
    \/ Process(w)
    \/ WriteOutput(w)

LoggerStep ==
    LoggerTick \/ LoggerRecv

MainStep ==
    SendTerminate \/ JoinLogger

\* the tokio runtime runs every spawned task that can run, the logger has a
\* thread of its own, and every stage operation returns
Fairness ==
    /\ \A w \in 0 .. (MinProcs - 1) : WF_vars(w \in Workers /\ WorkerStep(w))
    /\ WF_vars(LoggerStep)
    /\ WF_vars(MainStep)

SpecMinFair ==
    InitMin /\ [][Next]_vars /\ Fairness

\* ------------------------------------------------- one stage, taken alone
\* A download response of content length total (0: unknown) that delivers n
\* chunks of one unit each and then ends (complete) or fails, and an
\* extracted document of n PubmedArticle nodes.
PctInputs ==
    { [stage |-> "download", total |-> t, n |-> n, complete |-> c] :
         t \in 0 .. MaxUnits, n \in 0 .. MaxUnits, c \in BOOLEAN }
    \cup { [stage |-> "process", total |-> n, n |-> n, complete |-> TRUE] :
              n \in 0 .. MaxUnits }

\* a known content length is the length of the body: no more chunks than
\* units, and all of them when the stream ends without error
PctInputOk(in) ==
    in.stage = "download" /\ in.total > 0
       => (in.n <= in.total /\ (in.complete => in.n = in.total))

InitPct ==
    /\ InitSystem(MinFiles, MinProcs)
    /\ pre = {}
    /\ pct_in \in { in \in PctInputs : PctInputOk(in) }
    /\ pct_out = <<>>

\* download() of worker 0 on the response pct_in
PctDownload ==
    /\ pct_in.stage = "download"
    /\ pct_out = <<>>
    /\ pct_out' = DownloadStatuses(0, pct_in.total, pct_in.n, pct_in.complete)
    /\ UNCHANGED << pct_in, runVars, workerVars, loggerVars, histVars, chan, mpc >>

\* process() of worker 0 on the document pct_in
PctProcess ==
    /\ pct_in.stage = "process"
    /\ pct_out = <<>>
    /\ pct_out' = ProcessStatuses(0, pct_in.n)
    /\ UNCHANGED << pct_in, runVars, workerVars, loggerVars, histVars, chan, mpc >>

NextPct ==
    \/ PctDownload
    \/ PctProcess

SpecPct ==
    InitPct /\ [][NextPct]_vars

\* ---------------------------------------------------------------- claims
InLog(w, tag) ==
    \E k \in 1 .. Len(log[w]) : log[w][k] = tag

LastLog(w) ==
    IF log[w] = <<>> THEN "none" ELSE log[w][Len(log[w])]

AllEnded ==
    \A w \in Workers : Ended(w)

AllExhausted ==
    \A w \in Workers : pc[w] = "done"

\* a file of this run: created by write_output, completely or not
WrittenNow(i) ==
    artifact[i].st \in {"present", "partial"}

\* C1: no job index is ever handed out by two claim operations, whether to
\* two workers or twice to one worker.
C1_NoIndexIssuedTwice ==
    \A i \in Jobs : issued[i] <= 1

\* C2: once every worker has observed exhaustion, every index of 0..T-1 has
\* been issued to some worker.
C2_NoIndexOmitted ==
    AllExhausted => \A i \in Jobs : issued[i] >= 1

\* C3: a job whose reference digest differs from the computed digest reports
\* ErrorChecksumWrong and sends no Extracting, Processing, WritingFile or
\* FinishedInputFile status; its worker is back in the claim loop.
C3_MismatchAbandonsJob ==
    \A w \in Workers :
        "mismatch" \in fault[w] =>
            /\ LastLog(w) = "ErrorChecksumWrong"
            /\ pc[w] = "sub"
            /\ ~InLog(w, "Extracting")
            /\ ~InLog(w, "Processing")
            /\ ~InLog(w, "WritingFile")
            /\ ~InLog(w, "FinishedInputFile")

\* the part of C4 that concerns the failing worker alone
DownloadFailureLocal ==
    \A w \in Workers :
        "download" \in fault[w] =>
            /\ LastLog(w) = "ErrorDownloadFailed"
            /\ pc[w] = "sub"
            /\ ~InLog(w, "CheckMd5")
            /\ ~InLog(w, "Extracting")
            /\ ~InLog(w, "Processing")
            /\ ~InLog(w, "WritingFile")

\* C4: a failed download reports ErrorDownloadFailed, runs no later stage and
\* sends the worker back to the claim loop; in a run whose only failures are
\* downloads, no artifact is written for an index whose download failed and
\* every other index ends with its artifact.
C4_DownloadFailureIsolated ==
    /\ DownloadFailureLocal
    /\ (AllEnded /\ runFaults = "download") =>
           \A i \in Jobs :
               IF i \in dlFailed THEN ~WrittenNow(i) ELSE Exists(i)

\* C5: a job whose parsing fails reports ErrorParsingFailed and its worker
\* goes on to the persist stage of the same job.
C5_ParseFailureReported ==
    \A w \in Workers :
        "parse" \in fault[w] =>
            /\ InLog(w, "ErrorParsingFailed")
            /\ pc[w] \in {"write", "sub"}

\* C6: a job whose persist stage fails reports ErrorWritingFailed, reports no
\* FinishedInputFile, and its worker is back in the claim loop.
C6_PersistFailureReported ==
    \A w \in Workers :
        "persist" \in fault[w] =>
            /\ LastLog(w) = "ErrorWritingFailed"
            /\ ~InLog(w, "FinishedInputFile")
            /\ pc[w] = "sub"

\* C7: a job whose archive fails to decompress reports ErrorExtractionFailed,
\* runs no parsing or persist step, and its worker is back in the claim loop.
C7_DecompressFailureAbandonsJob ==
    \A w \in Workers :
        "decompress" \in fault[w] =>
            /\ LastLog(w) = "ErrorExtractionFailed"
            /\ pc[w] = "sub"
            /\ ~InLog(w, "Processing")
            /\ ~InLog(w, "WritingFile")

\* C8: a worker's loop ends only on exhaustion: an ended worker has read a
\* negative counter and Done is the one status it sent after its last claim.
C8_EndsOnlyByExhaustion ==
    \A w \in Workers :
        Ended(w) => (pc[w] = "done" /\ counter < 0 /\ log[w] = <<"Done">>)

\* the step in which worker w leaves check_if_file_is_present with the file
\* of its index present
SkipStep(w) ==
    /\ pc[w] = "run"
    /\ Exists(index[w])
    /\ pc'[w] # "run"

\* C9: a job whose artifact exists at the check goes straight back to the
\* claim loop, sending nothing, requesting nothing and leaving every
\* artifact as it is; a run that starts with every artifact present sends no
\* HTTP request and writes no artifact.
C9_ExistingArtifactSkipped ==
    /\ [][\A w \in Workers :
             SkipStep(w) =>
                 /\ pc'[w] = "sub"
                 /\ chan' = chan
                 /\ artifact' = artifact
                 /\ netJobs' = netJobs
                 /\ log'[w] = <<"Restarting">>]_vars
    /\ [](pre = Jobs => (netJobs = {} /\ \A i \in Jobs : artifact[i] = Old))

\* C9 witness: a run over artifacts that were all present has claimed and
\* skipped jobs and every worker has finished
C9_Witness ==
    /\ pre = Jobs
    /\ AllExhausted
    /\ \E i \in Jobs : issued[i] > 0

\* C10: in a run that starts without artifacts, when the logger has returned
\* exactly T terminal job events were sent, every index was claimed exactly
\* once, and if no stage failed finished_files equals T.
C10_EndToEnd ==
    (lpc = "returned" /\ pre = {}) =>
        /\ terminals = n_files
        /\ \A i \in Jobs : issued[i] = 1
        /\ (runFaults = "none" => finished_files = n_files)

\* the step in which the logger takes the message at the head of the channel
RecvStep ==
    lpc = "recv" /\ lpc' # "recv"

\* the increments a FinishedInputFile(n) message at the head of the channel
\* stands for: one file and n articles; any other message stands for none
HeadFiles ==
    IF chan # <<>> /\ Head(chan).tag = "FinishedInputFile" THEN 1 ELSE 0

HeadArticles ==
    IF chan # <<>> /\ Head(chan).tag = "FinishedInputFile" THEN Head(chan).n ELSE 0

\* C11: finished_files and found_articles count every received
\* FinishedInputFile(n) exactly once: a step of the logger that takes
\* FinishedInputFile(n) adds 1 and n, and every other step, the forced redraw
\* included, leaves both counters as they are.
C11_CountsEachFinishedOnce ==
    [][IF RecvStep
       THEN /\ finished_files' = finished_files + HeadFiles
            /\ found_articles' = found_articles + HeadArticles
       ELSE /\ finished_files' = finished_files
            /\ found_articles' = found_articles]_vars

\* the step in which a worker appends FinishedInputFile(n) to the channel
SendsFinished ==
    /\ Len(chan') > Len(chan)
    /\ chan'[Len(chan')].tag = "FinishedInputFile"

C13_NoInvalidArticlePersisted ==
    \A i \in 0 .. n_files - 1 :
       \A k \in 1 .. Len(artifact[i].data) :
          /\ artifact[i].data[k].title # <<>>
          /\ artifact[i].data[k].date # <<>>
          /\ artifact[i].data[k].authors > 0
          /\ artifact[i].data[k].id # <<>>

\* an output file with an article in it has been written in this run
C13_Witness ==
    \E i \in 0 .. n_files - 1 :
       /\ artifact[i].st = "present"
       /\ Len(artifact[i].data) > 0
       /\ issued[i] > 0

\* C14: the percentages one stage of one job reports are strictly
\* increasing and lie in 0 .. 100, for every content length, the unknown one
\* (0) included, and every number of chunks or articles.
C14_PercentagesIncreaseInRange ==
    /\ \A j \in 1 .. Len(pct_out) : pct_out[j].n \in 0 .. 100
    /\ \A j \in 1 .. Len(pct_out) - 1 : pct_out[j].n < pct_out[j + 1].n

\* C15: one stage of one job sends at most 100 percentage statuses, however
\* many chunks or articles it handles.
C15_AtMostHundredStatuses ==
    Len(pct_out) <= 100

\* the number of Terminate messages in a channel content
RECURSIVE Terminates(_)
Terminates(ch) ==
    IF ch = <<>> THEN 0
    ELSE (IF Head(ch).tag = "Terminate" THEN 1 ELSE 0) + Terminates(Tail(ch))

\* C16: Terminate is sent once in a run, by main.rs run and by no worker,
\* and only when every worker task has ended; so Terminate is behind every
\* worker status in the channel, and when the logger has returned it has
\* received all of them.
C16_TerminateOnceAfterWorkers ==
    /\ [][Terminates(chan') > Terminates(chan)
            => /\ mpc = "join" /\ mpc' = "joinLogger"
               /\ \A w \in Workers : pc[w] \in {"done", "panicked"}
               /\ pc' = pc
               /\ chan' = Append(chan, Msg(0, "Terminate", 0))]_vars
    /\ [][mpc' = "join" => mpc = "join"]_vars
    /\ [](/\ Terminates(chan) <= 1
          /\ Terminates(chan) = 1
                => /\ chan[Len(chan)].tag = "Terminate"
                   /\ mpc # "join" /\ lpc # "returned"
                   /\ \A w \in Workers : pc[w] \in {"done", "panicked"}
          /\ lpc = "returned"
                => /\ chan = <<>>
                   /\ mpc # "join"
                   /\ \A w \in Workers : pc[w] \in {"done", "panicked"})

\* the logger has returned on Terminate in a run in which a worker sent the
\* statuses of a job
C16_Witness ==
    /\ lpc = "returned"
    /\ mpc = "joinLogger"
    /\ \E i \in 0 .. n_files - 1 : issued[i] > 0
    /\ terminals > 0

\* C17: under fair scheduling, every stage operation returning, every run
\* terminates: the workers end, Terminate is sent, the logger takes it and
\* returns, and main.rs run gets past logger_thread.join().
C17_RunTerminates ==
    <>(/\ mpc = "exit"
       /\ lpc = "returned"
       /\ chan = <<>>
       /\ \A w \in Workers : pc[w] \in {"done", "panicked"})

\* a run has terminated in which a worker task ended by panic
C17_Witness ==
    /\ mpc = "exit"
    /\ lpc = "returned"
    /\ \E w \in Workers : pc[w] = "panicked"

\* C18: the overall progress bar is brought up to date within the handling
\* of every message: whenever the logger is between two messages, or has
\* returned on Terminate, the bar shows finished_files as its position and
\* found_articles as its article count.
C18_OverallBarUpToDate ==
    lpc \in {"top", "returned"}
       => (overall_pos = finished_files /\ overall_msg = found_articles)

\* C19: no step of the logger, and no other step, lowers finished_files or
\* found_articles.
C19_CountsNeverDecrease ==
    [][/\ finished_files' >= finished_files
       /\ found_articles' >= found_articles]_vars

\* the logger has counted a finished file with articles and has handled a
\* later message
C19_Witness ==
    /\ finished_files > 0
    /\ found_articles > 0
    /\ \E w \in Workers : last_parser_states[w].tag = "Done"

\* the place of a stage status in the order of the stages of a job
StageTags ==
    <<"Restarting", "Downloading", "CheckMd5", "Extracting", "Processing",
      "WritingFile", "FinishedInputFile">>

StageRank(tag) ==
    CHOOSE r \in 1 .. Len(StageTags) : StageTags[r] = tag

IsStageTag(tag) ==
    \E r \in 1 .. Len(StageTags) : StageTags[r] = tag

\* the stage statuses after which an error status of a stage can come
ErrorAfter(tag) ==
    CASE tag = "ErrorDownloadFailed" -> {"Restarting", "Downloading"}
      [] tag = "ErrorChecksumWrong" -> {"CheckMd5"}
      [] tag = "ErrorExtractionFailed" -> {"Extracting"}
      [] OTHER -> {}

\* l, the statuses of a worker since its last fetch_sub without repeats,
\* is Done alone or starts with Restarting and goes through the stages in
\* order, one by one, an error status being the last of l
StageOrder(l) ==
    \/ l = <<>>
    \/ l = <<"Done">>
    \/ /\ l[1] = "Restarting"
       /\ \A j \in 2 .. Len(l) :
             IF IsStageTag(l[j])
             THEN /\ IsStageTag(l[j - 1])
                  /\ StageRank(l[j]) = StageRank(l[j - 1]) + 1
             ELSE /\ l[j - 1] \in ErrorAfter(l[j])
                  /\ j = Len(l)

\* C20: the statuses a worker sends for a job follow the order Restarting,
\* Downloading, CheckMd5, Extracting, Processing, WritingFile,
\* FinishedInputFile, each stage after the one before it and none twice;
\* after ErrorDownloadFailed, ErrorChecksumWrong or ErrorExtractionFailed
\* the worker is back in try_restart, and its next status is Restarting or
\* Done.
C20_StageOrder ==
    /\ [](\A w \in Workers :
            /\ StageOrder(log[w])
            /\ (log[w] # <<>> /\ LastLog(w) \in ErrorTags) => pc[w] = "sub")
    /\ [][\A w \in Workers :
            (log[w] # <<>> /\ LastLog(w) \in ErrorTags /\ log'[w] # log[w])
               => log'[w] = <<>>]_vars
    /\ [][\A w \in Workers :
            (log[w] = <<>> /\ log'[w] # <<>>)
               => log'[w] \in {<<"Restarting">>, <<"Done">>}]_vars

\* a worker has sent the statuses of a whole job
C20_Witness ==
    \E w \in Workers : log[w] = StageTags

\* C21: the logger keeps one last status per worker: taking a message other
\* than Terminate from worker id puts it in slot id and leaves the other
\* slots as they are; taking Terminate, the forced redraw and every other
\* step leave all slots as they are.
C21_OneSlotPerWorker ==
    /\ [][IF RecvStep /\ Head(chan).tag # "Terminate" /\ Head(chan).id < n_procs
          THEN /\ last_parser_states'[Head(chan).id] = Head(chan)
               /\ \A w \in Workers \ {Head(chan).id} :
                     last_parser_states'[w] = last_parser_states[w]
          ELSE last_parser_states' = last_parser_states]_vars
    /\ [](DOMAIN last_parser_states = Workers)

\* the logger has taken the statuses of two workers and then Terminate, sent
\* with id 0: slot 0 still holds the Done of worker 0 and slot 1 that of
\* worker 1
C21_Witness ==
    /\ lpc = "returned"
    /\ terminals > 0
    /\ n_procs > 1
    /\ last_parser_states[0] = Msg(0, "Done", 0)
    /\ last_parser_states[1] = Msg(1, "Done", 0)

\* the number of times an index in 0 .. k was handed to a worker
RECURSIVE IssuedUpTo(_)
IssuedUpTo(k) ==
    IF k < 0 THEN 0 ELSE issued[k] + IssuedUpTo(k - 1)

\* C22: however the fetch_sub and load steps of the workers interleave, the
\* index a worker takes from the counter lies in 0 .. n_files - 1, the
\* workers together start at most n_files jobs, and the counter never falls
\* below -n_procs.
C22_IndexAndCounterInRange ==
    /\ [][\A w \in Workers :
            (pc[w] = "load" /\ pc'[w] = "run")
               => (index'[w] = counter /\ index'[w] \in 0 .. n_files - 1)]_vars
    /\ [](/\ \A w \in Workers : index[w] \in 0 .. n_files - 1
          /\ IssuedUpTo(n_files - 1) <= n_files
          /\ counter >= - n_procs
          /\ counter <= n_files)

\* two workers have interleaved their fetch_sub and load steps, so that one
\* index was handed out twice; every worker has left try_restart by Done and
\* the counter is at its lowest value
C22_Witness ==
    /\ \A w \in Workers : pc[w] = "done"
    /\ counter = - n_procs
    /\ \E i \in 0 .. n_files - 1 : issued[i] = 2

\* C23: a job that the check for its output file skips has sent Restarting
\* and sends nothing else, no FinishedInputFile and no error status, and
\* the step adds nothing to finished_files and found_articles; in a run
\* that starts with the output files of pre present and in which no stage
\* fails, at most n_files - |pre| FinishedInputFile statuses are sent.
C23_SkippedJobSendsNothing ==
    /\ [][\A w \in Workers :
            SkipStep(w) =>
                /\ log[w] = <<"Restarting">>
                /\ log'[w] = log[w]
                /\ chan' = chan
                /\ terminals' = terminals
                /\ finished_files' = finished_files
                /\ found_articles' = found_articles]_vars
    /\ [](runFaults = "none" => terminals <= n_files - Cardinality(pre))

====
